---- MODULE Spec2Model ----
(***************************************************************************)
(* Model of the document Q&A backend: the chunker (document_processor.py), *)
(* the embedding loop and the two background jobs (tasks.py), the status   *)
(* queries (api/routes), the repositories the jobs write through, the      *)
(* vector store, answer generator, confidence scorer and evaluation        *)
(* services, and the review, evaluation and document deletion routes.      *)
(***************************************************************************)
EXTENDS Integers, Sequences, FiniteSets, TLC

VARIABLES
    pfile,              \* chunker: the file handed to parse_document
    presult,            \* chunker: what parse_document did with it
    texts,              \* embedding loop: the chunk texts of one document
    embeddings,         \* embedding loop: the list built so far
    ei,                 \* embedding loop: loop variable i (0-based)
    epc,                \* embedding loop: "idle" | "loop" | "done" | "raised"
    api_key_config,     \* api_key_configs: the tenant has a row for "openai"
    processing_status,  \* documents.processing_status, "absent" before upload
    chunk_count,        \* documents.chunk_count
    doc_file,           \* the uploaded file stored for each document
    document_chunks,    \* document_chunks rows
    collection,         \* the vector collection of the project
    question_status,    \* questions.status of the question each job creates
    answers,            \* answers row each job creates
    answer_citations,   \* answer_citations rows each job creates
    task_kind,          \* which Celery task a job id runs
    task_state,         \* Celery state of the job (AsyncResult.state)
    task_info,          \* Celery meta, result or exception (AsyncResult.info)
    pc,                 \* the job's position in its task function
    file_paths,         \* argument of process_documents_task
    question_text,      \* argument of generate_answer_task
    idx,                \* loop variable of process_documents_task
    log,                \* how each finished loop iteration ended (logger lines)
    calls,              \* provider and vector-index calls each job has made
    retrieval_results,  \* local of generate_answer_task
    answer_text,        \* local of generate_answer_task: the text, token by token
    collections,        \* vector index server: collection name -> its entries
    vs_result,          \* vector index: the last VectorStoreService call and its outcome
    contexts,           \* answer generator: the ranked contexts supplied
    content,            \* answer generator: response.choices[0].message.content
    used_citations,     \* answer generator: what the citation scan returned
    scorer_input,       \* confidence scorer: contexts and how the graders answer
    metrics,            \* confidence scorer: what calculate_confidence did
    eval_request,       \* evaluation: the rows and metric outcomes one request meets
    eval_response,      \* evaluation: what evaluate_answer answered
    answer_versions,    \* answer_versions rows, in the order they were committed
    requests,           \* review requests in flight: where each is, what it has read
    responses           \* review requests submitted, and edits answered with success

ParseVars == <<pfile, presult>>

EmbedVars == <<texts, embeddings, ei, epc>>

DbVars ==
    <<api_key_config, processing_status, chunk_count, doc_file, document_chunks,
      question_status, answers, answer_citations>>

TaskVars ==
    <<task_kind, task_state, task_info, pc, file_paths, question_text, idx, log,
      calls, retrieval_results, answer_text>>

IndexVars == <<collections, vs_result>>

CiteVars == <<contexts, content, used_citations>>

ScoreVars == <<scorer_input, metrics>>

EvalVars == <<eval_request, eval_response>>

ReviewVars == <<answer_versions, requests, responses>>

\* the state of the services and routes exercised on their own
ServiceVars == <<IndexVars, CiteVars, ScoreVars, EvalVars, ReviewVars>>

JobVars == <<DbVars, collection, TaskVars, ServiceVars>>

vars == <<ParseVars, EmbedVars, JobVars>>

\* ------------------------------------------------------------------ bounds
MaxSplits == 2          \* pieces the splitter yields for one text
MaxJobs == 2            \* background jobs submitted
MaxDocs == 2            \* documents uploaded
MaxBatch == 2           \* files named by one ingestion job
MaxLabel == 2           \* highest citation label the model may write
MaxPages == 2           \* pages of a PDF
MaxBatches == 2         \* full embedding batches in one text list
EmbedSlack == 8         \* list lengths tried around each batch boundary
MaxEntries == 2         \* entries the vector index server holds in all
MaxAdd == 2             \* chunks handed to one add_documents call
MaxContexts == 2        \* contexts handed to the answer generator
MaxText == 6            \* characters of a generated answer
MaxScored == 2          \* contexts handed to the confidence scorer
MaxReviewers == 2       \* review requests in flight together
MaxReviews == 3         \* review requests submitted in all

\* ------------------------------------------------------------ small helpers
BSeq(S, n) == UNION {[1..k -> S] : k \in 0..n}

Min(a, b) == IF a < b THEN a ELSE b

\* ------------------------------------------------------------------ chunker
\* A text is represented by the pieces RecursiveCharacterTextSplitter cuts it
\* into; " " stands for a whitespace-only piece.
Pieces == {"a", " "}

\* str.strip() == "" for one piece
IsBlank(piece) == piece = " "

\* str.strip() == "" for a whole text
TextIsBlank(text) == \A k \in 1..Len(text) : IsBlank(text[k])

\* self.splitter.split_text(text)
split_text(text) == text

\* Path(file_path).suffix.lower()
lower(suffix) == IF suffix = ".PDF" THEN ".pdf" ELSE suffix

Returned(chunks) == [kind |-> "returned", chunks |-> chunks, error |-> "none"]

Raised(error) == [kind |-> "raised", chunks |-> <<>>, error |-> error]

NotCalled == [kind |-> "none", chunks |-> <<>>, error |-> "none"]

\* _parse_pdf, inner loop "for split in splits": st = [chunks, chunk_index]
RECURSIVE PdfSplits(_, _, _, _)
PdfSplits(st, splits, k, page_num) ==
    IF k > Len(splits) THEN st
    ELSE IF IsBlank(splits[k]) THEN PdfSplits(st, splits, k + 1, page_num)
    ELSE PdfSplits(
           [chunks |-> Append(st.chunks,
                              [chunk_index |-> st.chunk_index,
                               text |-> splits[k],
                               page_number |-> page_num + 1]),
            chunk_index |-> st.chunk_index + 1],
           splits, k + 1, page_num)

\* _parse_pdf, "page_text = page.get_text()" with the OCR fallback
PageText(page) == IF TextIsBlank(page.text) THEN page.ocr ELSE page.text

\* _parse_pdf, outer loop "for page_num in range(total_pages)"
RECURSIVE PdfPages(_, _, _)
PdfPages(st, pages, page_num) ==
    IF page_num >= Len(pages) THEN st
    ELSE LET page_text == PageText(pages[page_num + 1])
         IN IF TextIsBlank(page_text)
            THEN PdfPages(st, pages, page_num + 1)
            ELSE PdfPages(PdfSplits(st, split_text(page_text), 1, page_num),
                          pages, page_num + 1)

_parse_pdf(file) ==
    IF file.corrupt THEN Raised("ParseError")
    ELSE Returned(PdfPages([chunks |-> <<>>, chunk_index |-> 0], file.pages, 0).chunks)

\* _parse_docx and _parse_text, "for idx, split in enumerate(splits)" (pos is idx)
RECURSIVE EnumSplits(_, _, _)
EnumSplits(chunks, splits, pos) ==
    IF pos >= Len(splits) THEN chunks
    ELSE IF IsBlank(splits[pos + 1]) THEN EnumSplits(chunks, splits, pos + 1)
    ELSE EnumSplits(Append(chunks,
                           [chunk_index |-> pos,
                            text |-> splits[pos + 1],
                            page_number |-> 0]),
                    splits, pos + 1)

\* the text of a one-span file is the text of its only page
FullText(file) == IF Len(file.pages) = 0 THEN <<>> ELSE file.pages[1].text

_parse_docx(file) ==
    IF file.corrupt THEN Raised("ParseError")
    ELSE Returned(EnumSplits(<<>>, split_text(FullText(file)), 0))

_parse_text(file) ==
    IF file.corrupt THEN Raised("ParseError")
    ELSE Returned(EnumSplits(<<>>, split_text(FullText(file)), 0))

parse_document(file) ==
    LET extension == lower(file.suffix)
    IN IF extension = ".pdf" THEN _parse_pdf(file)
       ELSE IF extension \in {".docx", ".doc"} THEN _parse_docx(file)
       ELSE IF extension \in {".txt"} THEN _parse_text(file)
       ELSE Returned(<<>>)

RecognizedSuffix(suffix) == lower(suffix) \in {".pdf", ".docx", ".doc", ".txt"}

\* the files the chunker is tried on
PageSet == [text : BSeq(Pieces, MaxSplits), ocr : BSeq(Pieces, 1)]

PdfFiles == [suffix : {".pdf", ".PDF"}, corrupt : BOOLEAN, pages : BSeq(PageSet, MaxPages)]

SpanFiles ==
    [suffix : {".docx", ".doc", ".txt", ".xlsx"}, corrupt : BOOLEAN,
     pages : {<<[text |-> t, ocr |-> <<>>]>> : t \in BSeq(Pieces, MaxSplits + 1)}]

ParseInputs == PdfFiles \cup SpanFiles

NoFile == [suffix |-> ".txt", corrupt |-> FALSE, pages |-> <<>>]

\* --------------------------------------------------------- embedding loop
batch_size == 2000

\* one item of response.data for one input text
Emb(text) == <<"vec", text>>

\* client.embeddings.create(input=batch_texts), then
\* [item.embedding for item in response.data]
batch_embeddings(batch_texts) == [k \in 1..Len(batch_texts) |-> Emb(batch_texts[k])]

\* texts[i:i + batch_size]
Slice(s, from, to) == SubSeq(s, from + 1, Min(to, Len(s)))

\* mutant: the slice stops one item short of the batch
EmbedBatch_ShortSlice(ts, i, embs) ==
    embs \o batch_embeddings(Slice(ts, i, i + batch_size - 1))

\* one iteration of "for i in range(0, len(texts), batch_size)"
EmbedBatch(ts, i, embs) == embs \o batch_embeddings(Slice(ts, i, i + batch_size))

\* the whole loop, when no provider call raises
RECURSIVE EmbedAll(_, _, _)
EmbedAll(ts, i, embs) ==
    IF i >= Len(ts) THEN embs
    ELSE EmbedAll(ts, i + batch_size, EmbedBatch(ts, i, embs))

EmbedLens ==
    {n \in 0..(MaxBatches * batch_size + EmbedSlack) :
        \E m \in 0..MaxBatches :
            /\ n >= m * batch_size - EmbedSlack
            /\ n <= m * batch_size + EmbedSlack}

TextsOfLen(n) == [k \in 1..n |-> k]

\* ------------------------------------------------------- jobs: data model
Jobs == 1..MaxJobs

DocIds == 1..MaxDocs

\* the uploaded files the jobs are run on: two chunks, no extractable text,
\* an unrecognized extension, a corrupt file
FileOk ==
    [suffix |-> ".pdf", corrupt |-> FALSE,
     pages |-> <<[text |-> <<"a">>, ocr |-> <<>>], [text |-> <<>>, ocr |-> <<"a">>]>>]

FileNoText ==
    [suffix |-> ".pdf", corrupt |-> FALSE, pages |-> <<[text |-> <<" ">>, ocr |-> <<>>]>>]

FileUnsupported ==
    [suffix |-> ".xlsx", corrupt |-> FALSE, pages |-> <<[text |-> <<"a">>, ocr |-> <<>>]>>]

FileCorrupt == [suffix |-> ".docx", corrupt |-> TRUE, pages |-> <<>>]

JobFiles == {FileOk, FileNoText, FileUnsupported, FileCorrupt}

Questions == {"q1", "q2"}

\* raise ValueError("OpenAI API key not configured")
NoKeyMsg == "OpenAI API key not configured"

\* AsyncResult.info: None, the meta of update_state, the returned dict, or the
\* exception that ended the task
NoInfo == [k |-> "none", num |-> 0, den |-> 1, stage |-> "", current_file |-> 0, msg |-> ""]

ProgressMeta(i, total, file) ==
    [k |-> "meta", num |-> i, den |-> total, stage |-> "processing",
     current_file |-> file, msg |-> ""]

ResultInfo == [k |-> "result", num |-> 0, den |-> 1, stage |-> "", current_file |-> 0, msg |-> ""]

ExcInfo(msg) == [k |-> "exc", num |-> 0, den |-> 1, stage |-> "", current_file |-> 0, msg |-> msg]

NoAnswer ==
    [present |-> FALSE, answer_text |-> <<>>, confidence_score |-> 0,
     retrieval_score |-> 0, faithfulness_score |-> 0, status |-> "none", version |-> 0]

\* document_id = UUID(os.path.basename(file_path).split('_')[0])
CurDoc(j) == file_paths[j][idx[j] + 1]

Total(j) == Len(file_paths[j])

\* update(Document).where(document_id == d).values(processing_status=status)
SetStatus(ps, d, status) == [ps EXCEPT ![d] = IF @ = "absent" THEN @ ELSE status]

\* ... .values(chunk_count=n)
SetCount(cc, d, n) == [cc EXCEPT ![d] = IF processing_status[d] = "absent" THEN @ ELSE n]

\* DocumentRepository.create_chunks: uuid4() ids are fresh, here the triple
\* (job, document, position)
create_chunks(j, d, chunks) ==
    {[chunk_id |-> <<j, d, k>>,
      document_id |-> d,
      chunk_index |-> chunks[k].chunk_index,
      text |-> chunks[k].text,
      page_number |-> chunks[k].page_number,
      vector_id |-> <<j, d, k>>] : k \in 1..Len(chunks)}

ChunkTexts(chunks) == [k \in 1..Len(chunks) |-> chunks[k].text]

\* chunks_with_meta zipped with embeddings, as collection.add stores them
add_documents(j, d, chunks, embs) ==
    {[vector_id |-> <<j, d, k>>,
      chunk_id |-> <<j, d, k>>,
      document_id |-> d,
      chunk_index |-> chunks[k].chunk_index,
      page_number |-> chunks[k].page_number,
      text |-> chunks[k].text,
      embedding |-> embs[k]] : k \in 1..Min(Len(chunks), Len(embs))}

\* number of embeddings.create calls for n texts
NumBatches(n) == (n + batch_size - 1) \div batch_size

\* mutant: the zero-chunk branch is never taken
NoChunks_Never(chunks) == FALSE

\* if not chunks:
NoChunks(chunks) == chunks = <<>>

\* ------------------------------------------------------ answering helpers
top_k == 5

\* embedding vectors are 2-dimensional and all of the same length
Directions == {<<5, 0>>, <<3, 4>>, <<-4, -3>>}

Dot(u, v) == u[1] * v[1] + u[2] * v[2]

\* "hnsw:space": "cosine": 1 - cos(u, v), in thousandths; |u| * |v| = u.u
cosine_distance(u, v) == 1000 - (1000 * Dot(u, v)) \div Dot(u, u)

\* a query embedding: response.data[0].embedding for a question text, or a
\* vector given as such
EmbeddingOf(text) == [of |-> "question", text |-> text, vector |-> <<>>]

Vector(v) == [of |-> "vector", text |-> "", vector |-> v]

\* cosine distance (in thousandths) the collection reports between a query
\* and an entry: a fixed table for the questions of the jobs, the cosine
\* distance of the two vectors for a query made with a vector
Distance(q, e) ==
    IF q.of = "question"
    THEN (IF q.text = "q1" THEN 100 + 400 * (e.chunk_index % 2)
          ELSE 600 - 400 * (e.chunk_index % 2))
    ELSE cosine_distance(q.vector, e.embedding)

\* collection.query(n_results=k): the k nearest entries, nearest first
RECURSIVE Nearest(_, _, _)
Nearest(S, q, k) ==
    IF k = 0 \/ S = {} THEN <<>>
    ELSE LET e == CHOOSE x \in S : \A y \in S : Distance(q, x) <= Distance(q, y)
         IN <<e>> \o Nearest(S \ {e}, q, k - 1)

\* mutant: the last of the nearest entries is left out of the result
query_DropLast(coll, q, k) ==
    LET near == Nearest(coll, q, k)
    IN [i \in 1..(Len(near) - 1) |->
          [vector_id |-> near[i].vector_id,
           chunk_id |-> near[i].chunk_id,
           document_id |-> near[i].document_id,
           text |-> near[i].text,
           score |-> 1000 - Distance(q, near[i])]]

\* VectorStoreService.query: "score": 1.0 - distance
query(coll, q, k) ==
    LET near == Nearest(coll, q, k)
    IN [i \in 1..Len(near) |->
          [vector_id |-> near[i].vector_id,
           chunk_id |-> near[i].chunk_id,
           document_id |-> near[i].document_id,
           text |-> near[i].text,
           score |-> 1000 - Distance(q, near[i])]]

\* ------------------------------------------------------ vector index server
\* a UUID in its 36-character form; only the first 8 digits and the last one
\* vary here
Uuid(first, last) ==
    [i \in 1..36 |->
        IF i \in {9, 14, 19, 24} THEN "-"
        ELSE IF i <= 8 THEN first
        ELSE IF i = 36 THEN last
        ELSE "0"]

Tenants == {Uuid("a", "1"), Uuid("a", "2")}

Projects == {Uuid("c", "1"), Uuid("d", "1")}

\* str.replace('-', '')
RemoveHyphens(id) == SelectSeq(id, LAMBDA c : c # "-")

\* str(tenant_id).replace('-', '')[:8]
Short(id) == SubSeq(RemoveHyphens(id), 1, Min(8, Len(RemoveHyphens(id))))

\* collection_name = f"t_{tenant_short}_p_{project_short}"
collection_name(tenant_id, project_id) ==
    <<"t", "_">> \o Short(tenant_id) \o <<"_", "p", "_">> \o Short(project_id)

\* client.get_or_create_collection(name=collection_name)
get_or_create_collection(colls, name) ==
    IF name \in DOMAIN colls THEN colls ELSE colls @@ (name :> {})

\* collection.add(ids, embeddings, documents, metadatas): an id the collection
\* already holds is left as it is
chroma_add(coll, entries) ==
    coll \cup {e \in entries : \A x \in coll : x.vector_id # e.vector_id}

\* client.delete_collection(name=collection_name)
chroma_delete(colls, name) == [n \in DOMAIN colls \ {name} |-> colls[n]]

\* the chunk dictionaries add_documents is handed for documents of one project
VectorIds == 1..MaxEntries

ChunkDicts(tenant_id, project_id) ==
    [vector_id : VectorIds, chunk_id : {0}, document_id : {<<tenant_id, project_id>>},
     chunk_index : {0}, page_number : {1}, text : {"a"}, embedding : Directions]

StoredEntries(colls) == UNION {colls[n] : n \in DOMAIN colls}

NoCall ==
    [op |-> "none", tenant_id |-> <<>>, project_id |-> <<>>, top_k |-> 0,
     kind |-> "none", chunks |-> <<>>]

\* a text is the sequence of its characters
Digits == <<"0", "1", "2", "3", "4", "5", "6", "7", "8", "9">>

\* str(idx)
RECURSIVE Str(_)
Str(n) == IF n < 10 THEN <<Digits[n + 1]>> ELSE Str(n \div 10) \o <<Digits[(n % 10) + 1]>>

\* f"[{idx}]"
Label(i) == <<"[">> \o Str(i) \o <<"]">>

\* sub in s, scanning from position k
RECURSIVE In(_, _, _)
In(sub, s, k) ==
    IF k + Len(sub) - 1 > Len(s) THEN FALSE
    ELSE IF SubSeq(s, k, k + Len(sub) - 1) = sub THEN TRUE
    ELSE In(sub, s, k + 1)

excerpt_limit == 200

Ellipsis == <<".", ".", ".">>

\* ctx["text"][:200] + "..." if len(ctx["text"]) > 200 else ctx["text"]
Excerpt(text) ==
    IF Len(text) > excerpt_limit THEN SubSeq(text, 1, excerpt_limit) \o Ellipsis ELSE text

\* mutant: enumerate(contexts) without the start value 1
RECURSIVE ExtractCitations_ZeroBased(_, _, _)
ExtractCitations_ZeroBased(results, text, i) ==
    IF i > Len(results) THEN <<>>
    ELSE (IF In(Label(i - 1), text, 1)
          THEN <<[chunk_id |-> results[i].chunk_id,
                  excerpt |-> Excerpt(results[i].text),
                  relevance_score |-> results[i].score,
                  citation_order |-> i - 1]>>
          ELSE <<>>) \o ExtractCitations_ZeroBased(results, text, i + 1)

\* "for idx, ctx in enumerate(retrieval_results, 1): if f"[{idx}]" in answer_text"
RECURSIVE ExtractCitations(_, _, _)
ExtractCitations(results, text, i) ==
    IF i > Len(results) THEN <<>>
    ELSE (IF In(Label(i), text, 1)
          THEN <<[chunk_id |-> results[i].chunk_id,
                  excerpt |-> Excerpt(results[i].text),
                  relevance_score |-> results[i].score,
                  citation_order |-> i]>>
          ELSE <<>>) \o ExtractCitations(results, text, i + 1)

\* the answers the jobs' model writes: a word, then the labels of a set, the
\* highest first
RECURSIVE LabelsText(_)
LabelsText(labels) ==
    IF labels = {} THEN <<>>
    ELSE LET m == CHOOSE x \in labels : \A y \in labels : y <= x
         IN Label(m) \o LabelsText(labels \ {m})

AnswerTexts == {<<"w">> \o LabelsText(labels) : labels \in SUBSET (1..MaxLabel)}

\* the inputs the answer generator is tried on
Chars == {"[", "]"} \cup {Digits[i + 1] : i \in 1..MaxContexts}

ContextTexts == {TextsOfLen(n) : n \in excerpt_limit..(excerpt_limit + 1)}

ContextSet ==
    [vector_id : {0}, chunk_id : {"x", "y"}, document_id : {0}, text : ContextTexts,
     score : {900}]

RECURSIVE SumScores(_, _)
SumScores(results, i) ==
    IF i > Len(results) THEN 0 ELSE results[i].score + SumScores(results, i + 1)

\* retrieval_conf = float(np.mean(scores)) if scores else 0.5  (thousandths)
retrieval_conf(results) ==
    IF Len(results) = 0 THEN 500 ELSE SumScores(results, 1) \div Len(results)

\* AnswerRepository.create_answer with the task's confidence dict
create_answer(text, results) ==
    [present |-> TRUE, answer_text |-> text,
     confidence_score |-> retrieval_conf(results),
     retrieval_score |-> retrieval_conf(results),
     faithfulness_score |-> 800, status |-> "pending_review", version |-> 1]

\* -------------------------------------------------------- confidence scorer
\* scores are counted in millionths inside the scorer, and the metrics it
\* returns, rounded to 3 decimals, in thousandths
ScoreUnit == 1000000

weight_retrieval == 25

weight_coverage == 15

weight_faithfulness == 35

weight_relevancy == 25

high_relevance == 700000

neutral == 500

\* an entry of retrieval_results as the scorer reads it: a dict with "score"
\* and "text", one without "score", or one without "text"
ScoredContexts ==
    [kind : {"ok"}, score : {-800000, 0, 700000, 700400, 900000}]
        \cup [kind : {"noscore", "notext"}, score : {0}]

\* how a grading call ends: content that float() parses, content it does not
\* parse, or a call that raises
GraderOutcomes ==
    [kind : {"score"}, value : {-200000, 0, 1300, 800000, 1500000}]
        \cup [kind : {"unparseable", "call_failed"}, value : {0}]

NoScorerInput ==
    [retrieval_results |-> <<>>,
     faithfulness |-> [kind |-> "unparseable", value |-> 0],
     relevancy |-> [kind |-> "unparseable", value |-> 0]]

Metrics(kind, overall, retrieval, coverage, faithfulness, relevancy) ==
    [kind |-> kind, overall |-> overall, retrieval |-> retrieval, coverage |-> coverage,
     faithfulness |-> faithfulness, relevancy |-> relevancy]

NoMetrics == Metrics("none", 0, 0, 0, 0, 0)

\* the default scores of the except branch
NeutralMetrics == Metrics("returned", neutral, neutral, neutral, neutral, neutral)

\* r.get("score", 0.0)
get_score(r) == IF r.kind = "noscore" THEN 0 ELSE r.score

RECURSIVE SumOfScores(_, _)
SumOfScores(rs, i) == IF i > Len(rs) THEN 0 ELSE get_score(rs[i]) + SumOfScores(rs, i + 1)

Max(a, b) == IF a > b THEN a ELSE b

\* round(x, 3) of x counted in 1/unit thousandths, as thousandths
Round3(x, unit) == (2 * x + unit) \div (2 * unit)

\* _check_faithfulness and _check_relevancy: min(max(score, 0.0), 1.0), and
\* 0.5 when the content does not parse or the call raises
Grade(outcome) ==
    IF outcome.kind = "score" THEN Min(Max(outcome.value, 0), ScoreUnit)
    ELSE neutral * (ScoreUnit \div 1000)

\* ConfidenceScorer.calculate_confidence
calculate_confidence(input) ==
    LET rs == input.retrieval_results
        n == Len(rs)
    IN IF \E i \in 1..n : rs[i].kind = "notext" THEN NeutralMetrics
       ELSE LET mean == IF n = 0 THEN 0 ELSE SumOfScores(rs, 1) \div n
                high == Cardinality({i \in 1..n : get_score(rs[i]) > high_relevance})
                coverage == (high * ScoreUnit) \div Max(n, 1)
                faithfulness == Grade(input.faithfulness)
                relevancy == Grade(input.relevancy)
                composite == weight_retrieval * mean + weight_coverage * coverage
                             + weight_faithfulness * faithfulness
                             + weight_relevancy * relevancy
            IN Metrics("returned",
                       Round3(composite, 100 * (ScoreUnit \div 1000)),
                       Round3(mean, ScoreUnit \div 1000),
                       Round3(coverage, ScoreUnit \div 1000),
                       Round3(faithfulness, ScoreUnit \div 1000),
                       Round3(relevancy, ScoreUnit \div 1000))

\* ------------------------------------------------------ evaluation service
\* an Optional value: None, or the value it holds
None == [some |-> FALSE, v |-> 0]

Some(v) == [some |-> TRUE, v |-> v]

\* weights.append(0.25), weights.append(0.25), weights.append(0.50), in hundredths
weight_bleu == 25

weight_rouge_l == 25

weight_semantic == 50

\* raw scores are counted in hundred-thousandths, rounded ones in ten-thousandths
EvalUnit == 100000

\* how the n-gram overlap computation ends: sentence_bleu's score, no tokens
\* on one side, or an exception
BleuOutcomes ==
    [kind : {"value"}, value : {0, 40004, EvalUnit}]
        \cup [kind : {"no_tokens", "raised"}, value : {0}]

\* how the ROUGE scorer ends: the three f-measures, or an exception
RougeOutcomes ==
    {[kind |-> "value", rouge1 |-> t[1], rouge2 |-> t[2], rougeL |-> t[3]] :
        t \in {<<0, 0, 0>>, <<60006, 20002, 40004>>, <<EvalUnit, EvalUnit, EvalUnit>>}}
        \cup {[kind |-> "raised", rouge1 |-> 0, rouge2 |-> 0, rougeL |-> 0]}

\* how the embedding comparison ends: the cosine similarity, no OPENAI_API_KEY,
\* or an exception
SemanticOutcomes ==
    [kind : {"value"}, value : {0, 40004, EvalUnit}]
        \cup [kind : {"no_api_key", "raised"}, value : {0}]

\* EvaluationService._calculate_bleu
_calculate_bleu(outcome) ==
    IF outcome.kind = "raised" THEN None
    ELSE IF outcome.kind = "no_tokens" THEN Some(0)
    ELSE Some(outcome.value)

\* EvaluationService._calculate_rouge: the dict of f-measures, all 0.0 when
\* the scorer raises
_calculate_rouge(outcome) ==
    IF outcome.kind = "raised"
    THEN [rouge1_f1 |-> 0, rouge2_f1 |-> 0, rougeL_f1 |-> 0]
    ELSE [rouge1_f1 |-> outcome.rouge1, rouge2_f1 |-> outcome.rouge2,
          rougeL_f1 |-> outcome.rougeL]

\* EvaluationService._calculate_semantic_similarity
_calculate_semantic_similarity(outcome) ==
    IF outcome.kind = "value" THEN Some(outcome.value) ELSE None

RECURSIVE SumWeights(_, _)
SumWeights(parts, i) ==
    IF i > Len(parts) THEN 0 ELSE parts[i].w + SumWeights(parts, i + 1)

RECURSIVE SumWeighted(_, _)
SumWeighted(parts, i) ==
    IF i > Len(parts) THEN 0 ELSE parts[i].s * parts[i].w + SumWeighted(parts, i + 1)

\* the weighted average sum(s * w / total_weight), kept as a fraction
Fraction(num, den) == [some |-> TRUE, num |-> num, den |-> den]

NoFraction == [some |-> FALSE, num |-> 0, den |-> 1]

\* EvaluationService._calculate_overall_score(bleu, rouge, semantic)
_calculate_overall_score(bleu, rouge, semantic) ==
    LET rouge_l == Some(rouge.rougeL_f1)
        with_bleu == IF bleu.some THEN <<[s |-> bleu.v, w |-> weight_bleu]>> ELSE <<>>
        with_rouge ==
            IF rouge_l.some THEN Append(with_bleu, [s |-> rouge_l.v, w |-> weight_rouge_l])
            ELSE with_bleu
        parts ==
            IF semantic.some
            THEN Append(with_rouge, [s |-> semantic.v, w |-> weight_semantic])
            ELSE with_rouge
    IN IF parts = <<>> THEN NoFraction
       ELSE Fraction(SumWeighted(parts, 1), SumWeights(parts, 1))

\* round(x, 4) of x counted in 1/unit ten-thousandths, as ten-thousandths
Round4(x, unit) == (2 * x + unit) \div (2 * unit)

\* the schema EvaluationMetrics
EvaluationMetrics(bleu, rouge_1, rouge_2, rouge_l, semantic, overall) ==
    [bleu_score |-> bleu, rouge_1_f1 |-> rouge_1, rouge_2_f1 |-> rouge_2,
     rouge_l_f1 |-> rouge_l, semantic_similarity |-> semantic, overall_score |-> overall]

\* EvaluationService.evaluate(generated_answer, ground_truth): every metric
\* computation catches its own exceptions
evaluate(outcomes) ==
    LET bleu_score == _calculate_bleu(outcomes.bleu)
        rouge_scores == _calculate_rouge(outcomes.rouge)
        semantic_sim == _calculate_semantic_similarity(outcomes.semantic)
        overall_score == _calculate_overall_score(bleu_score, rouge_scores, semantic_sim)
        per == EvalUnit \div 10000
    IN EvaluationMetrics(
           IF bleu_score.some THEN Some(Round4(bleu_score.v, per)) ELSE None,
           Some(Round4(rouge_scores.rouge1_f1, per)),
           Some(Round4(rouge_scores.rouge2_f1, per)),
           Some(Round4(rouge_scores.rougeL_f1, per)),
           IF semantic_sim.some THEN Some(Round4(semantic_sim.v, per)) ELSE None,
           IF overall_score.some
           THEN Some(Round4(overall_score.num, overall_score.den * per))
           ELSE None)

\* questions rows as evaluate_answer reads them: no row (or a failed SELECT),
\* or a row whose ground_truth_answer is NULL or a text
NoQuestion == [present |-> FALSE, ground_truth_answer |-> [some |-> FALSE, text |-> <<>>]]

QuestionRows ==
    {NoQuestion}
        \cup {[present |-> TRUE, ground_truth_answer |-> g] :
                g \in {[some |-> FALSE, text |-> <<>>]}
                        \cup [some : {TRUE}, text : {<<>>, <<" ">>, <<"r">>}]}

\* what one evaluation request meets: whether set_tenant_context succeeds,
\* whether the answer is found, the question row, and how the metric
\* computations would end
EvalRequests ==
    [tenant_ok : BOOLEAN, answer_found : BOOLEAN, question : QuestionRows,
     bleu : BleuOutcomes, rouge : RougeOutcomes, semantic : SemanticOutcomes]

NoEvalRequest ==
    [tenant_ok |-> TRUE, answer_found |-> FALSE, question |-> NoQuestion,
     bleu |-> [kind |-> "raised", value |-> 0],
     rouge |-> [kind |-> "raised", rouge1 |-> 0, rouge2 |-> 0, rougeL |-> 0],
     semantic |-> [kind |-> "raised", value |-> 0]]

NoEvaluation == EvaluationMetrics(None, None, None, None, None, None)

\* the schema EvaluationResponse, or the HTTP error raised instead; calls
\* counts the calls of eval_service.evaluate
EvaluationResponse(kind, has_ground_truth, present, metrics_, message, evaluated) ==
    [kind |-> kind, has_ground_truth |-> has_ground_truth,
     metrics |-> [some |-> present, m |-> metrics_], message |-> message,
     calls |-> evaluated]

NoEvalResponse == EvaluationResponse("none", FALSE, FALSE, NoEvaluation, "", 0)

NoGroundTruthMsg == "No ground truth answer available for evaluation"

\* mutant: only a missing question or a NULL ground truth counts
NoReference_NullOnly(question) ==
    ~question.present \/ ~question.ground_truth_answer.some

\* if not question or not question.ground_truth_answer
NoReference(question) ==
    \/ ~question.present
    \/ ~question.ground_truth_answer.some
    \/ question.ground_truth_answer.text = <<>>

\* the route evaluate_answer(answer_id)
evaluate_answer(request) ==
    IF ~request.tenant_ok
    THEN EvaluationResponse("500", FALSE, FALSE, NoEvaluation, "DatabaseError", 0)
    ELSE IF ~request.answer_found
    THEN EvaluationResponse("404", FALSE, FALSE, NoEvaluation, "Answer not found", 0)
    ELSE IF NoReference(request.question)
    THEN EvaluationResponse("200", FALSE, FALSE, NoEvaluation, NoGroundTruthMsg, 0)
    ELSE EvaluationResponse("200", TRUE, TRUE, evaluate(request), "", 1)

\* ----------------------------------------------------------- status queries
\* get_job_status(job_id)
get_job_status(j) ==
    LET meta == task_info[j]
        isdict == meta.k \in {"none", "meta", "result"}
    IN [status |-> task_state[j],
        num |-> IF isdict /\ meta.k = "meta" THEN meta.num ELSE 0,
        den |-> IF isdict /\ meta.k = "meta" THEN meta.den ELSE 1,
        stage |-> IF isdict /\ meta.k = "meta" THEN meta.stage ELSE "pending",
        message |-> IF isdict /\ meta.k = "meta" THEN meta.current_file ELSE ""]

\* get_query_result(query_id): the status it reports and the message with it
get_query_result(j) ==
    IF task_state[j] = "PENDING"
    THEN [status |-> "pending", message |-> "Answer generation in progress"]
    ELSE IF task_state[j] = "PROGRESS"
    THEN [status |-> "processing", message |-> "Generating answer..."]
    ELSE IF task_state[j] = "FAILURE"
    THEN [status |-> "failed", message |-> task_info[j].msg]
    ELSE IF answers[j].present
    THEN [status |-> answers[j].status, message |-> ""]
    ELSE [status |-> "404", message |-> "Answer not found"]

\* ------------------------------------------------------------ review routes
Reviewers == 1..MaxReviewers

\* ReviewRequest.edited_text: missing, or a text with or without the label [1]
EditedTexts == {<<>>, <<"e">>, <<"e">> \o Label(1)}

\* a review request: idle, or an edit inside update_answer_text holding the
\* Answer object it has loaded
NoReview ==
    [pc |-> "idle", answer_id |-> 0, edited_text |-> <<>>, version |-> 0, answer_text |-> <<>>]

Editing(at, answer_id, edited_text) ==
    [pc |-> at, answer_id |-> answer_id, edited_text |-> edited_text,
     version |-> answers[answer_id].version,
     answer_text |-> answers[answer_id].answer_text]

\* the status update_answer_status is called with for approve and reject
StatusOf(action) == IF action = "approve" THEN "approved" ELSE "rejected"

\* AnswerVersion(answer_id, version_number, content_snapshot, change_type="edit")
AnswerVersion(answer_id, version_number, content_snapshot) ==
    [answer_id |-> answer_id, version_number |-> version_number,
     content_snapshot |-> content_snapshot]

\* the document_chunks rows of document d
ChunksOf(d) == {c \in document_chunks : c.document_id = d}

\* ON DELETE CASCADE from documents to document_chunks to answer_citations:
\* the citation rows left when the chunk rows of document d go
Cascade(citations, d) ==
    SelectSeq(citations, LAMBDA c : \A x \in ChunksOf(d) : x.chunk_id # c.chunk_id)

\* AnswerRepository.get_answer_with_citations: the answer row, and the
\* citations joined with their chunk and document rows, by citation_order
get_answer_with_citations(j) ==
    IF ~answers[j].present
    THEN [found |-> FALSE, answer_text |-> <<>>, status |-> "none", version |-> 0,
          citations |-> <<>>]
    ELSE [found |-> TRUE,
          answer_text |-> answers[j].answer_text,
          status |-> answers[j].status,
          version |-> answers[j].version,
          citations |->
              SelectSeq(answer_citations[j],
                        LAMBDA c : \E x \in document_chunks :
                                      /\ x.chunk_id = c.chunk_id
                                      /\ processing_status[x.document_id] # "absent")]

InitReviews ==
    /\ answer_versions = <<>>
    /\ requests = [r \in Reviewers |-> NoReview]
    /\ responses = [submitted |-> 0, edited |-> [j \in Jobs |-> 0]]

\* ------------------------------------------------------------------- Init
InitJobs ==
    /\ api_key_config = FALSE
    /\ processing_status = [d \in DocIds |-> "absent"]
    /\ chunk_count = [d \in DocIds |-> 0]
    /\ doc_file = [d \in DocIds |-> NoFile]
    /\ document_chunks = {}
    /\ collection = {}
    /\ question_status = [j \in Jobs |-> "absent"]
    /\ answers = [j \in Jobs |-> NoAnswer]
    /\ answer_citations = [j \in Jobs |-> <<>>]
    /\ task_kind = [j \in Jobs |-> "none"]
    /\ task_state = [j \in Jobs |-> "NONE"]
    /\ task_info = [j \in Jobs |-> NoInfo]
    /\ pc = [j \in Jobs |-> "none"]
    /\ file_paths = [j \in Jobs |-> <<>>]
    /\ question_text = [j \in Jobs |-> "q1"]
    /\ idx = [j \in Jobs |-> 0]
    /\ log = [j \in Jobs |-> <<>>]
    /\ calls = [j \in Jobs |-> [provider |-> 0, index |-> 0]]
    /\ retrieval_results = [j \in Jobs |-> <<>>]
    /\ answer_text = [j \in Jobs |-> <<>>]

InitIndex == collections = <<>> /\ vs_result = NoCall

InitCite == contexts = <<>> /\ content = <<>> /\ used_citations = NotCalled

InitScore == scorer_input = NoScorerInput /\ metrics = NoMetrics

InitParse == pfile = NoFile /\ presult = NotCalled

InitEmbed == texts = <<>> /\ embeddings = <<>> /\ ei = 0 /\ epc = "idle"

InitEval ==
    /\ eval_request = NoEvalRequest /\ eval_response = NoEvalResponse
    /\ InitReviews

Init ==
    InitParse /\ InitEmbed /\ InitJobs /\ InitIndex /\ InitCite /\ InitScore /\ InitEval

\* the chunker alone, on every file of ParseInputs
InitChunker ==
    /\ pfile \in ParseInputs
    /\ presult = NotCalled
    /\ InitEmbed
    /\ InitJobs
    /\ InitIndex /\ InitCite /\ InitScore /\ InitEval

\* the embedding loop alone, entered with every list length of EmbedLens:
\* texts = [chunk["text"] for chunk in chunks]; embeddings = []
InitEmbedLoop ==
    /\ InitParse
    /\ texts \in {TextsOfLen(n) : n \in EmbedLens}
    /\ embeddings = <<>>
    /\ ei = 0
    /\ epc = "loop"
    /\ InitJobs
    /\ InitIndex /\ InitCite /\ InitScore /\ InitEval

\* --------------------------------------------------------- chunker actions
\* DocumentProcessor.parse_document(file_path)
ParseDocument ==
    /\ presult.kind = "none"
    /\ presult' = parse_document(pfile)
    /\ UNCHANGED <<pfile, EmbedVars, JobVars>>

SpecParse == InitChunker /\ [][ParseDocument]_vars

\* ------------------------------------------------- embedding loop actions
\* one loop iteration whose provider call answers
EmbedIterate ==
    /\ epc = "loop"
    /\ ei < Len(texts)
    /\ embeddings' = EmbedBatch(texts, ei, embeddings)
    /\ ei' = ei + batch_size
    /\ UNCHANGED <<texts, epc>>
    /\ UNCHANGED <<ParseVars, JobVars>>

\* one loop iteration whose provider call raises
EmbedRaise ==
    /\ epc = "loop"
    /\ ei < Len(texts)
    /\ epc' = "raised"
    /\ UNCHANGED <<texts, embeddings, ei>>
    /\ UNCHANGED <<ParseVars, JobVars>>

\* range() is exhausted
EmbedExit ==
    /\ epc = "loop"
    /\ ei >= Len(texts)
    /\ epc' = "done"
    /\ UNCHANGED <<texts, embeddings, ei>>
    /\ UNCHANGED <<ParseVars, JobVars>>

NextEmbed == EmbedIterate \/ EmbedRaise \/ EmbedExit

SpecEmbed == InitEmbedLoop /\ [][NextEmbed]_vars

\* ------------------------------------------------------------ job plumbing
OtherVars == <<ParseVars, EmbedVars, ServiceVars>>

AnswerDb == <<question_status, answers, answer_citations>>

Args == <<task_kind, file_paths, question_text>>

AnswerLocals == <<retrieval_results, answer_text>>

\* the task function raises: Celery records FAILURE with the exception
Fail(j, msg) ==
    /\ task_state' = [task_state EXCEPT ![j] = "FAILURE"]
    /\ task_info' = [task_info EXCEPT ![j] = ExcInfo(msg)]
    /\ pc' = [pc EXCEPT ![j] = "done"]

\* the loop body ends (normally or by continue) and the loop goes on
NextIteration(j, entry) ==
    /\ log' = [log EXCEPT ![j] = Append(@, entry)]
    /\ idx' = [idx EXCEPT ![j] = @ + 1]
    /\ pc' = [pc EXCEPT ![j] = "iter"]

\* mutant: the task goes on without looking at the credential
CheckCredential_Skip(j, next) ==
    /\ pc' = [pc EXCEPT ![j] = next]
    /\ UNCHANGED <<task_state, task_info>>

\* api_key_config = settings_repo.get_api_key_config(tenant_id, "openai");
\* if not api_key_config: raise ValueError(...).  The repository returns None
\* also when its SELECT raises.
CheckCredential(j, next) ==
    \E cfg \in {api_key_config, FALSE} :
        IF cfg
        THEN /\ pc' = [pc EXCEPT ![j] = next]
             /\ UNCHANGED <<task_state, task_info>>
        ELSE Fail(j, NoKeyMsg)

\* mutant: the per-document handler re-raises
Handler_Reraise(j, e) ==
    /\ Fail(j, e)
    /\ UNCHANGED <<processing_status, log, idx>>

\* except Exception as e: doc_repo.update_document_status(document_id, 'failed')
Handler(j, e) ==
    \/ /\ processing_status' = SetStatus(processing_status, CurDoc(j), "failed")
       /\ NextIteration(j, "failed")
       /\ UNCHANGED <<task_state, task_info>>
    \/ /\ Fail(j, "DatabaseError")
       /\ UNCHANGED <<processing_status, log, idx>>

\* -------------------------------------------------------- submitting jobs
Uploaded == {d \in DocIds : processing_status[d] # "absent"}

\* job ids are handed out in order (uuid4 ids are interchangeable)
FreeJob(j) == task_kind[j] = "none" /\ \A h \in Jobs : h < j => task_kind[h] # "none"

\* upload_documents: one create_document + update_document_status('pending')
\* per file, then apply_async.  A repository call that raises ends the request
\* with the documents created so far and no job.
UploadDocuments(j) ==
    /\ FreeJob(j)
    /\ \E files \in BSeq(JobFiles, MaxBatch) :
       \E created \in 0..Len(files) :
        LET first == Cardinality(Uploaded)
            new == (first + 1)..(first + created)
        IN /\ Len(files) >= 1
           /\ first + Len(files) <= MaxDocs
           /\ processing_status' =
                [d \in DocIds |-> IF d \in new THEN "pending" ELSE processing_status[d]]
           /\ doc_file' = [d \in DocIds |-> IF d \in new THEN files[d - first] ELSE doc_file[d]]
           /\ IF created = Len(files)
              THEN /\ task_kind' = [task_kind EXCEPT ![j] = "ingest"]
                   /\ task_state' = [task_state EXCEPT ![j] = "PENDING"]
                   /\ pc' = [pc EXCEPT ![j] = "start"]
                   /\ file_paths' = [file_paths EXCEPT ![j] = [k \in 1..created |-> first + k]]
              ELSE UNCHANGED <<task_kind, task_state, pc, file_paths>>
    /\ UNCHANGED <<api_key_config, chunk_count, document_chunks, AnswerDb, collection,
                   task_info, question_text, idx, log, calls, AnswerLocals, OtherVars>>

\* process_documents_task queued again for files that are already stored
\* (a redelivered or resubmitted task)
ResubmitDocuments(j) ==
    /\ FreeJob(j)
    /\ \E paths \in BSeq(Uploaded, MaxBatch) :
        /\ Len(paths) >= 1
        /\ \A a, b \in 1..Len(paths) : a # b => paths[a] # paths[b]
        /\ file_paths' = [file_paths EXCEPT ![j] = paths]
    /\ task_kind' = [task_kind EXCEPT ![j] = "ingest"]
    /\ task_state' = [task_state EXCEPT ![j] = "PENDING"]
    /\ pc' = [pc EXCEPT ![j] = "start"]
    /\ UNCHANGED <<DbVars, collection, task_info, question_text, idx, log, calls,
                   AnswerLocals, OtherVars>>

\* generate_answer route: generate_answer_task.apply_async
GenerateAnswer(j) ==
    /\ FreeJob(j)
    /\ \E q \in Questions : question_text' = [question_text EXCEPT ![j] = q]
    /\ task_kind' = [task_kind EXCEPT ![j] = "answer"]
    /\ task_state' = [task_state EXCEPT ![j] = "PENDING"]
    /\ pc' = [pc EXCEPT ![j] = "start"]
    /\ UNCHANGED <<DbVars, collection, task_info, file_paths, idx, log, calls,
                   AnswerLocals, OtherVars>>

\* settings route validate_api_key -> SettingsRepository.save_api_key
SaveApiKey ==
    /\ ~api_key_config
    /\ api_key_config' = TRUE
    /\ UNCHANGED <<processing_status, chunk_count, doc_file, document_chunks, AnswerDb,
                   collection, TaskVars, OtherVars>>

\* settings route delete_api_key -> SettingsRepository.delete_api_key
DeleteApiKey ==
    /\ api_key_config
    /\ api_key_config' = FALSE
    /\ UNCHANGED <<processing_status, chunk_count, doc_file, document_chunks, AnswerDb,
                   collection, TaskVars, OtherVars>>

\* ------------------------------------------------ process_documents_task
\* set_tenant_context, the services, the credential check
IngestStart(j) ==
    /\ task_kind[j] = "ingest"
    /\ pc[j] = "start"
    /\ \/ Fail(j, "DatabaseError")
       \/ CheckCredential(j, "iter")
    /\ UNCHANGED <<DbVars, collection, Args, idx, log, calls, AnswerLocals, OtherVars>>

\* the head of "for idx, file_path in enumerate(file_paths)": update_state and
\* get_document_by_id (None also when its SELECT raises), or the return
IngestIter(j) ==
    /\ task_kind[j] = "ingest"
    /\ pc[j] = "iter"
    /\ \/ /\ idx[j] >= Total(j)
          /\ task_state' = [task_state EXCEPT ![j] = "SUCCESS"]
          /\ task_info' = [task_info EXCEPT ![j] = ResultInfo]
          /\ pc' = [pc EXCEPT ![j] = "done"]
          /\ UNCHANGED <<idx, log>>
       \/ /\ idx[j] < Total(j)
          /\ task_state' = [task_state EXCEPT ![j] = "PROGRESS"]
          /\ task_info' = [task_info EXCEPT ![j] = ProgressMeta(idx[j], Total(j), CurDoc(j))]
          /\ \E document \in {processing_status[CurDoc(j)] # "absent", FALSE} :
                IF document
                THEN /\ pc' = [pc EXCEPT ![j] = "mark"]
                     /\ UNCHANGED <<idx, log>>
                ELSE NextIteration(j, "notfound")
    /\ UNCHANGED <<DbVars, collection, Args, calls, AnswerLocals, OtherVars>>

\* doc_repo.update_document_status(document_id, 'processing'), outside the try
IngestMark(j) ==
    /\ task_kind[j] = "ingest"
    /\ pc[j] = "mark"
    /\ \/ /\ processing_status' = SetStatus(processing_status, CurDoc(j), "processing")
          /\ pc' = [pc EXCEPT ![j] = "parse"]
          /\ UNCHANGED <<task_state, task_info>>
       \/ /\ Fail(j, "DatabaseError")
          /\ UNCHANGED processing_status
    /\ UNCHANGED <<api_key_config, chunk_count, doc_file, document_chunks, AnswerDb,
                   collection, Args, idx, log, calls, AnswerLocals, OtherVars>>

\* parse_document, then the zero-chunk branch or create_chunks
IngestParse(j) ==
    /\ task_kind[j] = "ingest"
    /\ pc[j] = "parse"
    /\ LET d == CurDoc(j)
           parsed == parse_document(doc_file[d])
       IN \/ /\ parsed.kind = "raised"
             /\ Handler(j, parsed.error)
             /\ UNCHANGED document_chunks
          \/ /\ parsed.kind = "returned"
             /\ NoChunks(parsed.chunks)
             /\ \/ /\ processing_status' = SetStatus(processing_status, d, "failed")
                   /\ NextIteration(j, "nochunks")
                   /\ UNCHANGED <<task_state, task_info>>
                \/ Handler(j, "DatabaseError")
             /\ UNCHANGED document_chunks
          \/ /\ parsed.kind = "returned"
             /\ ~NoChunks(parsed.chunks)
             /\ \/ /\ document_chunks' = document_chunks \cup create_chunks(j, d, parsed.chunks)
                   /\ pc' = [pc EXCEPT ![j] = "embed"]
                   /\ UNCHANGED <<processing_status, task_state, task_info, idx, log>>
                \/ /\ Handler(j, "DatabaseError")
                   /\ UNCHANGED document_chunks
    /\ UNCHANGED <<api_key_config, chunk_count, doc_file, AnswerDb, collection, Args,
                   calls, AnswerLocals, OtherVars>>

\* the embedding loop, then vector_store.add_documents
IngestEmbed(j) ==
    /\ task_kind[j] = "ingest"
    /\ pc[j] = "embed"
    /\ LET d == CurDoc(j)
           chunks == parse_document(doc_file[d]).chunks
           ts == ChunkTexts(chunks)
       IN \/ \E failing \in 1..NumBatches(Len(ts)) :
                /\ calls' = [calls EXCEPT ![j].provider = @ + failing]
                /\ Handler(j, "ProviderError")
                /\ UNCHANGED collection
          \/ /\ calls' = [calls EXCEPT ![j].provider = @ + NumBatches(Len(ts)),
                                       ![j].index = @ + 1]
             /\ \/ /\ collection' =
                        chroma_add(collection, add_documents(j, d, chunks, EmbedAll(ts, 0, <<>>)))
                   /\ pc' = [pc EXCEPT ![j] = "complete"]
                   /\ UNCHANGED <<processing_status, task_state, task_info, idx, log>>
                \/ /\ Handler(j, "VectorIndexError")
                   /\ UNCHANGED collection
    /\ UNCHANGED <<api_key_config, chunk_count, doc_file, document_chunks, AnswerDb,
                   Args, AnswerLocals, OtherVars>>

\* doc_repo.update_document_status(document_id, 'completed', len(chunks))
IngestComplete(j) ==
    /\ task_kind[j] = "ingest"
    /\ pc[j] = "complete"
    /\ LET d == CurDoc(j)
           chunks == parse_document(doc_file[d]).chunks
       IN \/ /\ processing_status' = SetStatus(processing_status, d, "completed")
             /\ chunk_count' = SetCount(chunk_count, d, Len(chunks))
             /\ NextIteration(j, "completed")
             /\ UNCHANGED <<task_state, task_info>>
          \/ /\ Handler(j, "DatabaseError")
             /\ UNCHANGED chunk_count
    /\ UNCHANGED <<api_key_config, doc_file, document_chunks, AnswerDb, collection,
                   Args, calls, AnswerLocals, OtherVars>>

NextIngest ==
    \E j \in Jobs :
        \/ UploadDocuments(j)
        \/ ResubmitDocuments(j)
        \/ IngestStart(j)
        \/ IngestIter(j)
        \/ IngestMark(j)
        \/ IngestParse(j)
        \/ IngestEmbed(j)
        \/ IngestComplete(j)

\* -------------------------------------------------- generate_answer_task
\* set_tenant_context, the services, the credential check
AnswerStart(j) ==
    /\ task_kind[j] = "answer"
    /\ pc[j] = "start"
    /\ \/ Fail(j, "DatabaseError")
       \/ CheckCredential(j, "question")
    /\ UNCHANGED <<DbVars, collection, Args, idx, log, calls, AnswerLocals, OtherVars>>

\* question_repo.create_question({... 'status': 'pending'})
AnswerCreateQuestion(j) ==
    /\ task_kind[j] = "answer"
    /\ pc[j] = "question"
    /\ \/ /\ question_status' = [question_status EXCEPT ![j] = "pending"]
          /\ pc' = [pc EXCEPT ![j] = "processing"]
          /\ UNCHANGED <<task_state, task_info>>
       \/ /\ Fail(j, "DatabaseError")
          /\ UNCHANGED question_status
    /\ UNCHANGED <<api_key_config, processing_status, chunk_count, doc_file,
                   document_chunks, answers, answer_citations, collection, Args, idx,
                   log, calls, AnswerLocals, OtherVars>>

\* question_repo.update_question_status(question.question_id, 'processing')
AnswerSetProcessing(j) ==
    /\ task_kind[j] = "answer"
    /\ pc[j] = "processing"
    /\ \/ /\ question_status' = [question_status EXCEPT ![j] = "processing"]
          /\ pc' = [pc EXCEPT ![j] = "retrieve"]
          /\ UNCHANGED <<task_state, task_info>>
       \/ /\ Fail(j, "DatabaseError")
          /\ UNCHANGED question_status
    /\ UNCHANGED <<api_key_config, processing_status, chunk_count, doc_file,
                   document_chunks, answers, answer_citations, collection, Args, idx,
                   log, calls, AnswerLocals, OtherVars>>

\* the query embedding, then vector_store.query(top_k=5)
AnswerRetrieve(j) ==
    /\ task_kind[j] = "answer"
    /\ pc[j] = "retrieve"
    /\ \/ /\ calls' = [calls EXCEPT ![j].provider = @ + 1]
          /\ Fail(j, "ProviderError")
          /\ UNCHANGED retrieval_results
       \/ /\ calls' = [calls EXCEPT ![j].provider = @ + 1, ![j].index = @ + 1]
          /\ \/ /\ retrieval_results' =
                     [retrieval_results EXCEPT ![j] = query(collection, EmbeddingOf(question_text[j]), top_k)]
                /\ pc' = [pc EXCEPT ![j] = "generate"]
                /\ UNCHANGED <<task_state, task_info>>
             \/ /\ Fail(j, "VectorIndexError")
                /\ UNCHANGED retrieval_results
    /\ UNCHANGED <<DbVars, collection, Args, idx, log, answer_text, OtherVars>>

\* the chat completion, the citation scan, then answer_repo.create_answer
AnswerGenerate(j) ==
    /\ task_kind[j] = "answer"
    /\ pc[j] = "generate"
    /\ calls' = [calls EXCEPT ![j].provider = @ + 1]
    /\ \/ /\ Fail(j, "ProviderError")
          /\ UNCHANGED <<answers, answer_text>>
       \/ \E text \in AnswerTexts :
            /\ answer_text' = [answer_text EXCEPT ![j] = text]
            /\ \/ /\ answers' = [answers EXCEPT ![j] = create_answer(text, retrieval_results[j])]
                  /\ pc' = [pc EXCEPT ![j] =
                             IF ExtractCitations(retrieval_results[j], text, 1) = <<>>
                             THEN "review" ELSE "citations"]
                  /\ UNCHANGED <<task_state, task_info>>
               \/ /\ Fail(j, "DatabaseError")
                  /\ UNCHANGED answers
    /\ UNCHANGED <<api_key_config, processing_status, chunk_count, doc_file,
                   document_chunks, question_status, answer_citations, collection, Args,
                   idx, log, retrieval_results, OtherVars>>

\* mutant: a failed create_citations is swallowed and the task goes on
AnswerCite_Swallow(j) ==
    /\ task_kind[j] = "answer"
    /\ pc[j] = "citations"
    /\ pc' = [pc EXCEPT ![j] = "review"]
    /\ UNCHANGED <<DbVars, collection, task_kind, task_state, task_info, file_paths,
                   question_text, idx, log, calls, AnswerLocals, OtherVars>>

\* if citations: answer_repo.create_citations(...)
AnswerCite(j) ==
    /\ task_kind[j] = "answer"
    /\ pc[j] = "citations"
    /\ \/ /\ answer_citations' =
               [answer_citations EXCEPT ![j] =
                   ExtractCitations(retrieval_results[j], answer_text[j], 1)]
          /\ pc' = [pc EXCEPT ![j] = "review"]
          /\ UNCHANGED <<task_state, task_info>>
       \/ /\ Fail(j, "DatabaseError")
          /\ UNCHANGED answer_citations
    /\ UNCHANGED <<api_key_config, processing_status, chunk_count, doc_file,
                   document_chunks, question_status, answers, collection, Args, idx,
                   log, calls, AnswerLocals, OtherVars>>

\* question_repo.update_question_status(question.question_id, 'review'); return
AnswerReview(j) ==
    /\ task_kind[j] = "answer"
    /\ pc[j] = "review"
    /\ \/ /\ question_status' = [question_status EXCEPT ![j] = "review"]
          /\ task_state' = [task_state EXCEPT ![j] = "SUCCESS"]
          /\ task_info' = [task_info EXCEPT ![j] = ResultInfo]
          /\ pc' = [pc EXCEPT ![j] = "done"]
       \/ /\ Fail(j, "DatabaseError")
          /\ UNCHANGED question_status
    /\ UNCHANGED <<api_key_config, processing_status, chunk_count, doc_file,
                   document_chunks, answers, answer_citations, collection, Args, idx,
                   log, calls, AnswerLocals, OtherVars>>

NextAnswer ==
    \E j \in Jobs :
        \/ GenerateAnswer(j)
        \/ AnswerStart(j)
        \/ AnswerCreateQuestion(j)
        \/ AnswerSetProcessing(j)
        \/ AnswerRetrieve(j)
        \/ AnswerGenerate(j)
        \/ AnswerCite(j)
        \/ AnswerReview(j)

Next == NextIngest \/ NextAnswer \/ SaveApiKey \/ DeleteApiKey

Spec == Init /\ [][Next]_vars

\* ---------------------------------------------------- AnswerGenerator alone
\* the generator on every list of contexts and every model response
InitGenerator ==
    /\ InitParse /\ InitEmbed /\ InitJobs /\ InitIndex /\ InitScore /\ InitEval
    /\ contexts \in BSeq(ContextSet, MaxContexts)
    /\ content \in BSeq(Chars, MaxText)
    /\ used_citations = NotCalled

CiteFrame ==
    <<ParseVars, EmbedVars, DbVars, collection, TaskVars, IndexVars, ScoreVars, EvalVars,
      ReviewVars, contexts, content>>

\* generate_answer: the completion answers with content, then the citation scan
GenerateAnswerText ==
    /\ used_citations.kind = "none"
    /\ used_citations' = Returned(ExtractCitations(contexts, content, 1))
    /\ UNCHANGED CiteFrame

\* generate_answer: the completion call raises
GenerateRaise ==
    /\ used_citations.kind = "none"
    /\ used_citations' = Raised("ProviderError")
    /\ UNCHANGED CiteFrame

NextCite == GenerateAnswerText \/ GenerateRaise

SpecCite == InitGenerator /\ [][NextCite]_vars

\* --------------------------------------------------- ConfidenceScorer alone
\* the scorer on every list of contexts and every pair of grading outcomes
InitScorer ==
    /\ InitParse /\ InitEmbed /\ InitJobs /\ InitIndex /\ InitCite /\ InitEval
    /\ scorer_input \in [retrieval_results : BSeq(ScoredContexts, MaxScored),
                          faithfulness : GraderOutcomes,
                          relevancy : GraderOutcomes]
    /\ metrics = NoMetrics

\* calculate_confidence(retrieval_results, answer, question, api_key)
CalculateConfidence ==
    /\ metrics.kind = "none"
    /\ metrics' = calculate_confidence(scorer_input)
    /\ UNCHANGED <<ParseVars, EmbedVars, DbVars, collection, TaskVars, IndexVars,
                   CiteVars, EvalVars, ReviewVars, scorer_input>>

SpecScore == InitScorer /\ [][CalculateConfidence]_vars

\* --------------------------------- documents and answers after the jobs
\* the documents of the ingestion job the reviews start from
StoredDocs == 1..Min(MaxBatch, MaxDocs)

StoredChunks == parse_document(FileOk).chunks

\* the state after process_documents_task (job 1) has completed the two-chunk
\* PDFs of StoredDocs and generate_answer_task (job 2) has answered a question
InitStored ==
    /\ InitParse /\ InitEmbed /\ InitIndex /\ InitCite /\ InitScore /\ InitEval
    /\ api_key_config = TRUE
    /\ processing_status = [d \in DocIds |-> IF d \in StoredDocs THEN "completed" ELSE "absent"]
    /\ chunk_count = [d \in DocIds |-> IF d \in StoredDocs THEN Len(StoredChunks) ELSE 0]
    /\ doc_file = [d \in DocIds |-> IF d \in StoredDocs THEN FileOk ELSE NoFile]
    /\ document_chunks = UNION {create_chunks(1, d, StoredChunks) : d \in StoredDocs}
    /\ collection =
         UNION {add_documents(1, d, StoredChunks, EmbedAll(ChunkTexts(StoredChunks), 0, <<>>)) :
                   d \in StoredDocs}
    /\ task_kind = [j \in Jobs |-> IF j = 1 THEN "ingest" ELSE IF j = 2 THEN "answer" ELSE "none"]
    /\ task_state = [j \in Jobs |-> IF j \in {1, 2} THEN "SUCCESS" ELSE "NONE"]
    /\ task_info = [j \in Jobs |-> IF j \in {1, 2} THEN ResultInfo ELSE NoInfo]
    /\ pc = [j \in Jobs |-> IF j \in {1, 2} THEN "done" ELSE "none"]
    /\ file_paths = [j \in Jobs |-> IF j = 1 THEN [k \in StoredDocs |-> k] ELSE <<>>]
    /\ idx = [j \in Jobs |-> IF j = 1 THEN Cardinality(StoredDocs) ELSE 0]
    /\ log = [j \in Jobs |-> IF j = 1 THEN [k \in StoredDocs |-> "completed"] ELSE <<>>]
    /\ calls = [j \in Jobs |->
                  IF j = 1
                  THEN [provider |-> Cardinality(StoredDocs) * NumBatches(Len(StoredChunks)),
                        index |-> Cardinality(StoredDocs)]
                  ELSE IF j = 2 THEN [provider |-> 2, index |-> 1]
                  ELSE [provider |-> 0, index |-> 0]]
    /\ question_status = [j \in Jobs |-> IF j = 2 THEN "review" ELSE "absent"]
    /\ \E q \in Questions, text \in AnswerTexts :
          LET results == query(collection, EmbeddingOf(q), top_k)
          IN /\ question_text = [j \in Jobs |-> IF j = 2 THEN q ELSE "q1"]
             /\ retrieval_results = [j \in Jobs |-> IF j = 2 THEN results ELSE <<>>]
             /\ answer_text = [j \in Jobs |-> IF j = 2 THEN text ELSE <<>>]
             /\ answers = [j \in Jobs |-> IF j = 2 THEN create_answer(text, results) ELSE NoAnswer]
             /\ answer_citations =
                  [j \in Jobs |-> IF j = 2 THEN ExtractCitations(results, text, 1) ELSE <<>>]

ReviewFrame ==
    <<ParseVars, EmbedVars, api_key_config, processing_status, chunk_count, doc_file,
      document_chunks, question_status, answer_citations, collection, TaskVars, IndexVars,
      CiteVars, ScoreVars, EvalVars>>

Submitted == responses' = [responses EXCEPT !.submitted = @ + 1]

\* POST /answers/{answer_id}/review up to its first commit: approve and reject
\* are one update_answer_status; edit loads the Answer in update_answer_text.
\* The request is answered 400 (edit without edited_text) or 500 (a database
\* call raises) with nothing written.
SubmitReview(r) ==
    /\ requests[r].pc = "idle"
    /\ responses.submitted < MaxReviews
    /\ \E j \in {a \in Jobs : answers[a].present},
          action \in {"approve", "reject", "edit"},
          edited_text \in EditedTexts :
          /\ action # "edit" => edited_text = <<>>
          /\ Submitted
          /\ \/ /\ action # "edit"
                /\ answers' = [answers EXCEPT ![j].status = StatusOf(action)]
                /\ UNCHANGED requests
             \/ /\ action = "edit"
                /\ edited_text # <<>>
                /\ requests' = [requests EXCEPT ![r] = Editing("snapshot", j, edited_text)]
                /\ UNCHANGED answers
             \/ UNCHANGED <<answers, requests>>
    /\ UNCHANGED <<answer_versions, ReviewFrame>>

\* update_answer_text: create_answer_version(version_number=answer.version,
\* content_snapshot=answer.answer_text), which commits; or it raises (500)
ReviewSnapshot(r) ==
    /\ requests[r].pc = "snapshot"
    /\ \/ /\ answer_versions' =
               Append(answer_versions,
                      AnswerVersion(requests[r].answer_id, requests[r].version,
                                    requests[r].answer_text))
          /\ requests' = [requests EXCEPT ![r].pc = "refresh"]
       \/ /\ requests' = [requests EXCEPT ![r] = NoReview]
          /\ UNCHANGED answer_versions
    /\ UNCHANGED <<answers, responses, ReviewFrame>>

\* update_answer_text: the commit has expired the loaded Answer, so reading
\* answer.version for the UPDATE loads the row again
ReviewRefresh(r) ==
    /\ requests[r].pc = "refresh"
    /\ \/ requests' = [requests EXCEPT ![r] =
                          Editing("update", requests[r].answer_id, requests[r].edited_text)]
       \/ requests' = [requests EXCEPT ![r] = NoReview]
    /\ UNCHANGED <<answers, answer_versions, responses, ReviewFrame>>

\* update_answer_text: update(Answer).values(answer_text=new_text,
\* version=answer.version + 1, status="edited") and the commit
ReviewUpdate(r) ==
    /\ requests[r].pc = "update"
    /\ \/ /\ answers' = [answers EXCEPT ![requests[r].answer_id] =
                            [@ EXCEPT !.answer_text = requests[r].edited_text,
                                      !.version = requests[r].version + 1,
                                      !.status = "edited"]]
          /\ requests' = [requests EXCEPT ![r].pc = "status"]
       \/ /\ requests' = [requests EXCEPT ![r] = NoReview]
          /\ UNCHANGED answers
    /\ UNCHANGED <<answer_versions, responses, ReviewFrame>>

\* submit_review: update_answer_status(answer_id, "edited"), then the
\* response "Answer edited"; or it raises (500)
ReviewStatus(r) ==
    /\ requests[r].pc = "status"
    /\ requests' = [requests EXCEPT ![r] = NoReview]
    /\ \/ /\ answers' = [answers EXCEPT ![requests[r].answer_id].status = "edited"]
          /\ responses' = [responses EXCEPT !.edited[requests[r].answer_id] = @ + 1]
       \/ UNCHANGED <<answers, responses>>
    /\ UNCHANGED <<answer_versions, ReviewFrame>>

\* DELETE /documents/{document_id}: the row is deleted and the database
\* cascades to its chunks and their citations; the stored file is removed
DeleteDocument(d) ==
    /\ processing_status[d] # "absent"
    /\ processing_status' = [processing_status EXCEPT ![d] = "absent"]
    /\ chunk_count' = [chunk_count EXCEPT ![d] = 0]
    /\ doc_file' = [doc_file EXCEPT ![d] = NoFile]
    /\ document_chunks' = document_chunks \ ChunksOf(d)
    /\ answer_citations' = [j \in Jobs |-> Cascade(answer_citations[j], d)]
    /\ UNCHANGED <<api_key_config, question_status, answers, collection, TaskVars,
                   ParseVars, EmbedVars, ServiceVars>>

NextReview ==
    \/ \E r \in Reviewers :
          \/ SubmitReview(r)
          \/ ReviewSnapshot(r)
          \/ ReviewRefresh(r)
          \/ ReviewUpdate(r)
          \/ ReviewStatus(r)
    \/ \E d \in DocIds : DeleteDocument(d)

SpecReview == InitStored /\ [][NextReview]_vars

\* --------------------------------------------------- evaluate_answer alone
\* the route on every request of EvalRequests
InitEvaluator ==
    /\ InitParse /\ InitEmbed /\ InitJobs /\ InitIndex /\ InitCite /\ InitScore
    /\ InitReviews
    /\ eval_request \in EvalRequests
    /\ eval_response = NoEvalResponse

\* POST /answers/{answer_id}/evaluate
EvaluateAnswer ==
    /\ eval_response.kind = "none"
    /\ eval_response' = evaluate_answer(eval_request)
    /\ UNCHANGED <<ParseVars, EmbedVars, DbVars, collection, TaskVars, IndexVars,
                   CiteVars, ScoreVars, ReviewVars, eval_request>>

SpecEval == InitEvaluator /\ [][EvaluateAnswer]_vars

\* ------------------------------------------------- VectorStoreService alone
\* everything but the vector index server and the record of the last call
IndexFrame ==
    <<ParseVars, EmbedVars, DbVars, collection, TaskVars, CiteVars, ScoreVars, EvalVars,
      ReviewVars>>

QueryKs == {1, 2, top_k}

\* uuid4 vector ids: no two chunks of a call share one (listed in id order)
DistinctIds(chunks) ==
    \A a, b \in 1..Len(chunks) : a < b => chunks[a].vector_id < chunks[b].vector_id

Called(op, tenant_id, project_id, k, kind, chunks) ==
    [op |-> op, tenant_id |-> tenant_id, project_id |-> project_id, top_k |-> k,
     kind |-> kind, chunks |-> chunks]

\* VectorStoreService.add_documents(tenant_id, project_id, chunks, embeddings);
\* get_collection or collection.add may raise
VsAddDocuments ==
    \E tenant_id \in Tenants, project_id \in Projects :
        LET name == collection_name(tenant_id, project_id)
            created == get_or_create_collection(collections, name)
        IN /\ \/ \E chunks \in BSeq(ChunkDicts(tenant_id, project_id), MaxAdd) :
                    LET added == [created EXCEPT ![name] =
                                     chroma_add(@, {chunks[k] : k \in 1..Len(chunks)})]
                    IN /\ Len(chunks) >= 1
                       /\ DistinctIds(chunks)
                       /\ Cardinality(StoredEntries(added)) <= MaxEntries
                       /\ collections' = added
                       /\ vs_result' =
                            Called("add", tenant_id, project_id, 0, "returned", <<>>)
              \/ /\ collections' \in {collections, created}
                 /\ vs_result' = Called("add", tenant_id, project_id, 0, "raised", <<>>)
           /\ UNCHANGED IndexFrame

\* VectorStoreService.query(tenant_id, project_id, query_embedding, top_k);
\* get_collection or collection.query may raise
VsQuery ==
    \E tenant_id \in Tenants, project_id \in Projects :
        LET name == collection_name(tenant_id, project_id)
            created == get_or_create_collection(collections, name)
        IN /\ \/ \E query_embedding \in Directions, k \in QueryKs :
                    /\ collections' = created
                    /\ vs_result' =
                         Called("query", tenant_id, project_id, k, "returned",
                                query(created[name], Vector(query_embedding), k))
              \/ /\ collections' \in {collections, created}
                 /\ vs_result' = Called("query", tenant_id, project_id, 0, "raised", <<>>)
           /\ UNCHANGED IndexFrame

\* VectorStoreService.delete_collection(tenant_id, project_id)
VsDeleteCollection ==
    \E tenant_id \in Tenants, project_id \in Projects :
        LET name == collection_name(tenant_id, project_id)
        IN /\ \/ /\ name \in DOMAIN collections
                 /\ collections' = chroma_delete(collections, name)
                 /\ vs_result' = Called("delete", tenant_id, project_id, 0, "returned", <<>>)
              \/ /\ collections' = collections
                 /\ vs_result' = Called("delete", tenant_id, project_id, 0, "raised", <<>>)
           /\ UNCHANGED IndexFrame

NextIndex == VsAddDocuments \/ VsQuery \/ VsDeleteCollection

SpecIndex == Init /\ [][NextIndex]_vars


\* ================================================================ claims
IngestJobs == {j \in Jobs : task_kind[j] = "ingest"}

AnswerJobs == {j \in Jobs : task_kind[j] = "answer"}

\* no other job names document d
OnlyJob(j, d) ==
    \A h \in Jobs \ {j} : \A k \in 1..Len(file_paths[h]) : file_paths[h][k] # d

ZeroChunks(d) ==
    LET parsed == parse_document(doc_file[d])
    IN parsed.kind = "returned" /\ parsed.chunks = <<>>

\* the status a caller sees for a job, in the words of the job state machine
Seen(j) ==
    IF task_kind[j] = "ingest"
    THEN (CASE get_job_status(j).status = "PENDING" -> "queued"
            [] get_job_status(j).status = "PROGRESS" -> "running"
            [] get_job_status(j).status = "SUCCESS" -> "completed"
            [] get_job_status(j).status = "FAILURE" -> "failed"
            [] OTHER -> "unknown")
    ELSE (CASE get_query_result(j).status = "pending" -> "queued"
            [] get_query_result(j).status = "processing" -> "running"
            [] get_query_result(j).status = "failed" -> "failed"
            [] OTHER -> "completed")

Rank(status) ==
    CASE status = "queued" -> 0
      [] status = "running" -> 1
      [] OTHER -> 2

\* the message of the status record a caller gets for a job
SeenMessage(j) ==
    IF task_kind[j] = "ingest" THEN get_job_status(j).message
    ELSE get_query_result(j).message

\* ---------------------------------------------------------------------- C1
C1_Outcomes ==
    \A j \in IngestJobs :
        /\ task_state[j] = "FAILURE" => task_info[j].msg \in {NoKeyMsg, "DatabaseError"}
        /\ Len(log[j]) = idx[j]
        /\ task_state[j] = "SUCCESS" => Len(log[j]) = Total(j)
        /\ \A i \in 1..Len(log[j]) :
            LET d == file_paths[j][i]
            IN OnlyJob(j, d) =>
                /\ log[j][i] \in {"failed", "nochunks"} => processing_status[d] = "failed"
                /\ log[j][i] = "completed" => processing_status[d] = "completed"
                /\ log[j][i] = "notfound" => processing_status[d] = "pending"

C1_OnlyCurrent ==
    \A j \in IngestJobs :
        Len(log'[j]) > Len(log[j]) =>
            \A d \in DocIds \ {CurDoc(j)} : processing_status'[d] = processing_status[d]

\* C1: a parse, embedding or indexing failure of one document of a batch is
\* recorded as status failed on that document only, the loop goes on to every
\* other document of the batch, each of which ends with its own outcome, and
\* the job never ends failed because of such an error.
Thm_C1 == [](C1_Outcomes) /\ [][C1_OnlyCurrent]_vars

Witness_C1 ==
    \E j \in IngestJobs :
        /\ task_state[j] = "SUCCESS"
        /\ Total(j) = 2
        /\ doc_file[file_paths[j][1]] = FileCorrupt
        /\ log[j] = <<"failed", "completed">>
        /\ processing_status[file_paths[j][1]] = "failed"
        /\ processing_status[file_paths[j][2]] = "completed"

\* ---------------------------------------------------------------------- C2
C2_NothingDone ==
    \A j \in Jobs :
        (task_state[j] = "FAILURE" /\ task_info[j].msg = NoKeyMsg) =>
            /\ log[j] = <<>>
            /\ calls[j] = [provider |-> 0, index |-> 0]
            /\ question_status[j] = "absent"
            /\ ~answers[j].present
            /\ answer_citations[j] = <<>>
            /\ \A c \in document_chunks : c.chunk_id[1] # j
            /\ \A e \in collection : e.vector_id[1] # j

C2_FailsAtOnce ==
    \A j \in Jobs :
        (pc[j] = "start" /\ pc'[j] # "start" /\ ~api_key_config) =>
            /\ task_state'[j] = "FAILURE"
            /\ pc'[j] = "done"
            /\ UNCHANGED <<processing_status, chunk_count, document_chunks, collection,
                           question_status, answers, answer_citations, calls>>

\* C2: a job of either kind that finds no stored credential fails in its
\* first step: it ends failed, changes no document status, creates no chunk,
\* question, answer or citation record and has made no provider or
\* vector-index call.
Thm_C2 == [](C2_NothingDone) /\ [][C2_FailsAtOnce]_vars

Witness_C2 ==
    \E j, h \in Jobs :
        /\ task_kind[j] = "ingest"
        /\ task_kind[h] = "answer"
        /\ task_state[j] = "FAILURE" /\ task_info[j].msg = NoKeyMsg
        /\ task_state[h] = "FAILURE" /\ task_info[h].msg = NoKeyMsg
        /\ processing_status[file_paths[j][1]] = "pending"

\* ---------------------------------------------------------------------- C3
\* C3: a document's processing state only moves pending -> processing ->
\* completed or failed, and completed and failed are never left.
CE_C3 ==
    [][\A d \in DocIds :
        /\ processing_status[d] = "pending" =>
               processing_status'[d] \in {"pending", "processing"}
        /\ processing_status[d] = "processing" =>
               processing_status'[d] \in {"processing", "completed", "failed"}
        /\ processing_status[d] \in {"completed", "failed"} =>
               processing_status'[d] = processing_status[d]]_vars

\* ---------------------------------------------------------------------- C4
\* C4: the status seen for a job never moves backwards, never leaves completed
\* or failed, and a job that does its work is seen running before it is seen
\* completed.
CE_C4 ==
    [][\A j \in Jobs :
        (task_kind[j] # "none") =>
            /\ Rank(Seen(j)') >= Rank(Seen(j))
            /\ Seen(j) \in {"completed", "failed"} => Seen(j)' = Seen(j)
            /\ (Seen(j)' = "completed" /\ Seen(j) # "completed") => Seen(j) = "running"]_vars

\* ---------------------------------------------------------------------- C5
\* C5: the status record of a failed job carries the message of the error
\* that ended the job.
CE_C5 == \A j \in Jobs : task_state[j] = "FAILURE" => SeenMessage(j) = task_info[j].msg

\* ---------------------------------------------------------------------- C6
C6_ReviewLast ==
    \A j \in AnswerJobs :
        /\ question_status[j] = "review" =>
            /\ answers[j].present
            /\ answer_citations[j] = ExtractCitations(retrieval_results[j], answer_text[j], 1)
        /\ task_state[j] = "FAILURE" => question_status[j] # "review"

C6_InOrder ==
    \A j \in Jobs :
        question_status'[j] # question_status[j] =>
            \/ question_status[j] = "absent" /\ question_status'[j] = "pending"
            \/ question_status[j] = "pending" /\ question_status'[j] = "processing"
            \/ question_status[j] = "processing" /\ question_status'[j] = "review"

ChunkIndexes(chunks) == {chunks[k].chunk_index : k \in 1..Len(chunks)}

\* C7: the chunk_index values of the chunks parse_document returns are exactly
\* 0..n-1 for n chunks, for every format.
CE_C7 ==
    presult.kind = "returned" =>
        /\ ChunkIndexes(presult.chunks) = 0..(Len(presult.chunks) - 1)
        /\ \A k \in 1..Len(presult.chunks) : presult.chunks[k].chunk_index = k - 1

\* ---------------------------------------------------------------------- C8
C8_Docs ==
    \A d \in Uploaded :
        ZeroChunks(d) =>
            /\ processing_status[d] # "completed"
            /\ \A c \in document_chunks : c.document_id # d
            /\ \A e \in collection : e.document_id # d

C8_Jobs ==
    \A j \in IngestJobs : \A i \in 1..Len(log[j]) :
        LET d == file_paths[j][i]
        IN ZeroChunks(d) =>
            /\ log[j][i] # "completed"
            /\ (log[j][i] # "notfound" /\ OnlyJob(j, d)) => processing_status[d] = "failed"

\* C8: a document whose parse yields zero chunks is never completed, has no
\* chunk record and no vector-index entry, and the job that handled it left
\* it failed.
Thm_C8 == C8_Docs /\ C8_Jobs

Witness_C8 ==
    \E j \in IngestJobs :
        /\ task_state[j] = "SUCCESS"
        /\ \E i \in 1..Len(log[j]) :
            /\ doc_file[file_paths[j][i]] = FileNoText
            /\ log[j][i] = "nochunks"
            /\ processing_status[file_paths[j][i]] = "failed"

\* ---------------------------------------------------------------------- C9
\* C9: parse_document does not return normally for an unrecognized extension
\* (UnsupportedFormat) nor for corrupt input (a parse error).
CE_C9 ==
    presult.kind # "none" =>
        /\ ~RecognizedSuffix(pfile.suffix) => presult = Raised("UnsupportedFormat")
        /\ (RecognizedSuffix(pfile.suffix) /\ pfile.corrupt) => presult.kind = "raised"

\* --------------------------------------------------------------------- C10
\* C10: whatever the number of texts (below, at or above the batch size), the
\* embeddings list grows batch by batch as the vectors of the texts in input
\* order, and after the loop has one vector per text, embeddings[i] being the
\* vector returned for texts[i].
Thm_C10 ==
    epc \in {"loop", "done"} =>
        /\ Len(embeddings) = Min(ei, Len(texts))
        /\ \A k \in 1..Len(embeddings) : embeddings[k] = Emb(texts[k])
        /\ epc = "done" => Len(embeddings) = Len(texts)

Witness_C10 ==
    /\ epc = "done"
    /\ Len(texts) = 2 * batch_size + 1
    /\ Len(embeddings) = Len(texts)

\* --------------------------------------------------------------------- C11
\* C11: a query made for one (tenant, project) pair returns only entries that
\* were added under that pair, whatever adds, queries and deletions came before.
CE_C11 ==
    (vs_result.op = "query" /\ vs_result.kind = "returned") =>
        \A i \in 1..Len(vs_result.chunks) :
            vs_result.chunks[i].document_id = <<vs_result.tenant_id, vs_result.project_id>>

\* --------------------------------------------------------------------- C12
\* C12: ingesting the same document again leaves the project's collection as
\* it was after the first ingestion: one entry for each chunk of the document.
CE_C12 ==
    \A e, f \in collection :
        (e.document_id = f.document_id /\ e.chunk_index = f.chunk_index) => e = f

\* --------------------------------------------------------------------- C13
NamespaceSize(colls, tenant_id, project_id) ==
    LET name == collection_name(tenant_id, project_id)
    IN IF name \in DOMAIN colls THEN Cardinality(colls[name]) ELSE 0

C13_Size ==
    (vs_result' # vs_result /\ vs_result'.op = "query" /\ vs_result'.kind = "returned") =>
        LET size == NamespaceSize(collections, vs_result'.tenant_id, vs_result'.project_id)
            out == vs_result'.chunks
        IN /\ Len(out) = Min(vs_result'.top_k, size)
           /\ size = 0 => out = <<>>
           /\ \A a, b \in 1..Len(out) : a # b => out[a].vector_id # out[b].vector_id

\* C13: a query that returns gives min(top_k, size of the namespace) distinct
\* entries, and the empty list for a namespace that is absent or empty.
Thm_C13 == [][C13_Size]_vars

Witness_C13 ==
    /\ vs_result.op = "query"
    /\ vs_result.kind = "returned"
    /\ vs_result.top_k = top_k
    /\ Len(vs_result.chunks) = 2
    /\ NamespaceSize(collections, vs_result.tenant_id, vs_result.project_id) = 2

\* --------------------------------------------------------------------- C14
\* C14: every score of every entry a query returns lies in [0, 1] (here in
\* thousandths).
CE_C14 ==
    (vs_result.op = "query" /\ vs_result.kind = "returned") =>
        \A i \in 1..Len(vs_result.chunks) :
            vs_result.chunks[i].score >= 0 /\ vs_result.chunks[i].score <= 1000

\* --------------------------------------------------------------------- C15
\* the label "[i]" stands at some position of the text
Occurs(text, i) ==
    \E k \in 1..Len(text) :
        /\ k + Len(Label(i)) - 1 <= Len(text)
        /\ \A m \in 1..Len(Label(i)) : text[k + m - 1] = Label(i)[m]

\* C15: the citations are one for each i in 1..n whose label "[i]" occurs in
\* the answer text and none for the others, in strictly increasing i, with
\* citation_order = i and the chunk id and score of the i-th context.
Thm_C15 ==
    used_citations.kind = "returned" =>
        LET cs == used_citations.chunks
        IN /\ \A i \in 1..Len(contexts) :
                Occurs(content, i) <=> \E c \in 1..Len(cs) : cs[c].citation_order = i
           /\ \A c \in 1..Len(cs) :
                /\ cs[c].citation_order \in 1..Len(contexts)
                /\ cs[c].chunk_id = contexts[cs[c].citation_order].chunk_id
                /\ cs[c].relevance_score = contexts[cs[c].citation_order].score
           /\ \A c, d \in 1..Len(cs) : c < d => cs[c].citation_order < cs[d].citation_order

\* both labels occur, the second before the first
Witness_C15 ==
    /\ used_citations.kind = "returned"
    /\ content = Label(2) \o Label(1)
    /\ Len(contexts) = 2
    /\ contexts[1].chunk_id # contexts[2].chunk_id
    /\ Len(used_citations.chunks) = 2
    /\ used_citations.chunks[1].citation_order = 1

\* --------------------------------------------------------------------- C16
\* C16: a citation's excerpt is the whole context text when that has at most
\* 200 characters, and otherwise ends in an ellipsis and is at most 200
\* characters long with it.
CE_C16 ==
    used_citations.kind = "returned" =>
        \A c \in 1..Len(used_citations.chunks) :
            LET excerpt == used_citations.chunks[c].excerpt
                text == contexts[used_citations.chunks[c].citation_order].text
            IN /\ Len(excerpt) <= excerpt_limit
               /\ Len(text) <= excerpt_limit => excerpt = text
               /\ Len(text) > excerpt_limit =>
                    SubSeq(excerpt, Len(excerpt) - 2, Len(excerpt)) = Ellipsis

\* --------------------------------------------------------------------- C17
\* C17: with no context retrieved the job still stores an answer, cites
\* nothing, and records a retrieval score of 0.0.
CE_C17 ==
    \A j \in AnswerJobs :
        (pc[j] \in {"citations", "review", "done"} /\ retrieval_results[j] = <<>>
         /\ task_state[j] # "FAILURE") =>
            /\ answers[j].present
            /\ ExtractCitations(retrieval_results[j], answer_text[j], 1) = <<>>
            /\ answer_citations[j] = <<>>
            /\ answers[j].retrieval_score = 0

\* --------------------------------------------------------------------- C18
\* the weighted sum of the returned sub-scores, rounded to 3 decimals
WeightedSum(m) ==
    Round3(weight_retrieval * m.retrieval + weight_coverage * m.coverage
           + weight_faithfulness * m.faithfulness + weight_relevancy * m.relevancy, 100)

\* C18: the overall score calculate_confidence returns lies in [0, 1] and is
\* the weighted sum 0.25, 0.15, 0.35, 0.25 of the sub-scores it returns, to 3
\* decimal places.
CE_C18 ==
    metrics.kind = "returned" =>
        /\ metrics.overall >= 0
        /\ metrics.overall <= 1000
        /\ metrics.overall = WeightedSum(metrics)

\* --------------------------------------------------------------------- C19
StepFailed(input) ==
    \/ \E i \in 1..Len(input.retrieval_results) : input.retrieval_results[i].kind = "notext"
    \/ input.faithfulness.kind = "call_failed"
    \/ input.relevancy.kind = "call_failed"

\* C19: calculate_confidence always returns, and when a step of it failed (a
\* malformed context entry, a grading call that raised) it returns 0.5 for
\* overall, retrieval, coverage, faithfulness and relevancy.
CE_C19 ==
    metrics.kind # "none" =>
        /\ metrics.kind = "returned"
        /\ StepFailed(scorer_input) => metrics = NeutralMetrics

\* --------------------------------------------------------------------- C20
\* what the scorer is handed for the contexts of a job (scores in millionths)
ScorerInputOf(results, faithfulness, relevancy) ==
    [retrieval_results |->
        [i \in 1..Len(results) |-> [kind |-> "ok", score |-> results[i].score * (ScoreUnit \div 1000)]],
     faithfulness |-> faithfulness,
     relevancy |-> relevancy]

\* C20: the scores stored with an answer are those the confidence scorer
\* gives for the job's contexts, for some outcome of its two grading calls:
\* overall, retrieval and faithfulness are the scorer's.
CE_C20 ==
    \A j \in AnswerJobs :
        answers[j].present =>
            \E f, r \in GraderOutcomes :
                LET m == calculate_confidence(ScorerInputOf(retrieval_results[j], f, r))
                IN /\ answers[j].confidence_score = m.overall
                   /\ answers[j].retrieval_score = m.retrieval
                   /\ answers[j].faithfulness_score = m.faithfulness

\* --------------------------------------------------------------------- C21
\* the sub-scores of a request that could be computed, with their weights
Computable(request) ==
    LET b == IF request.bleu.kind = "raised" THEN <<>>
             ELSE <<[s |-> _calculate_bleu(request.bleu).v, w |-> weight_bleu]>>
        r == IF request.rouge.kind = "raised" THEN <<>>
             ELSE <<[s |-> request.rouge.rougeL, w |-> weight_rouge_l]>>
        m == IF request.semantic.kind # "value" THEN <<>>
             ELSE <<[s |-> request.semantic.value, w |-> weight_semantic]>>
    IN b \o r \o m

\* C21: the overall score is the weighted combination (0.25, 0.25, 0.50)
\* renormalized over exactly the sub-scores that could be computed; a
\* sub-score whose computation failed is left out and never counted as zero,
\* and overall is absent when none of the three could be computed.
CE_C21 ==
    eval_response.metrics.some =>
        LET parts == Computable(eval_request)
        IN eval_response.metrics.m.overall_score =
              IF parts = <<>> THEN None
              ELSE Some(Round4(SumWeighted(parts, 1),
                               SumWeights(parts, 1) * (EvalUnit \div 10000)))

\* --------------------------------------------------------------------- C22
\* the request's question is missing, or its ground truth is null or empty
C22_NoReferenceAnswer ==
    \/ ~eval_request.question.present
    \/ ~eval_request.question.ground_truth_answer.some
    \/ Len(eval_request.question.ground_truth_answer.text) = 0

\* C22: evaluating an answer whose question is missing or has a null or empty
\* ground truth never calls the metric computation and returns no metrics
\* object, and when the answer is read it returns the explicit
\* no-ground-truth result.
Thm_C22 ==
    (eval_response.kind # "none" /\ C22_NoReferenceAnswer) =>
        /\ eval_response.calls = 0
        /\ ~eval_response.metrics.some
        /\ (eval_request.tenant_ok /\ eval_request.answer_found) =>
              /\ eval_response.kind = "200"
              /\ ~eval_response.has_ground_truth
              /\ eval_response.message = NoGroundTruthMsg

Witness_C22 ==
    /\ eval_request.question.present
    /\ eval_request.question.ground_truth_answer = [some |-> TRUE, text |-> <<>>]
    /\ eval_request.answer_found
    /\ eval_request.tenant_ok
    /\ eval_response.kind = "200"
    /\ ~eval_response.has_ground_truth

\* --------------------------------------------------------------------- C23
\* the results of the job's query for question q on the project's collection
QueryFor(q) == query(collection, EmbeddingOf(q), top_k)

\* C23: after delete_document has completed for a document, no query on the
\* namespace returns an entry whose chunk id or document id belongs to the
\* deleted document.
CE_C23 ==
    \A d \in DocIds :
        processing_status[d] = "absent" =>
            \A q \in Questions :
                \A i \in 1..Len(QueryFor(q)) :
                    /\ QueryFor(q)[i].document_id # d
                    /\ QueryFor(q)[i].chunk_id[2] # d

\* --------------------------------------------------------------------- C24
\* C24: when a document is deleted, and with it the chunks an answer cites,
\* the answer can still be read and its citation records are all retained.
CE_C24 ==
    [][\A d \in DocIds :
          (processing_status[d] # "absent" /\ processing_status'[d] = "absent") =>
              \A j \in Jobs :
                  answers[j].present =>
                      /\ get_answer_with_citations(j)'.found
                      /\ answer_citations'[j] = answer_citations[j]]_vars

\* --------------------------------------------------------------------- C25
\* C25: when vector_store.add_documents cannot reach the index while an
\* ingestion job is indexing a document, the whole job aborts at that step and
\* ends failed with the index error, instead of going on to the remaining
\* documents and ending completed.
CE_C25 ==
    [][\A j \in IngestJobs :
          (/\ pc[j] = "embed"
           /\ calls'[j].index > calls[j].index
           /\ collection' = collection)
              => /\ task_state'[j] = "FAILURE"
                 /\ task_info'[j].msg = "VectorIndexError"]_vars

\* --------------------------------------------------------------------- C26
\* C26: whenever an ingestion job has finished, every persisted chunk record
\* of its documents has exactly one index entry under its vector_id, vector
\* ids are unique in the collection, and a completed document's chunk_count
\* is the number of its persisted chunk records.
CE_C26 ==
    /\ \A e1, e2 \in collection : e1.vector_id = e2.vector_id => e1 = e2
    /\ \A j \in IngestJobs :
        pc[j] = "done" =>
            \A i \in 1..Total(j) :
                LET d == file_paths[j][i]
                IN OnlyJob(j, d) =>
                    /\ \A c \in ChunksOf(d) :
                          Cardinality({e \in collection : e.vector_id = c.vector_id}) = 1
                    /\ processing_status[d] = "completed" =>
                          chunk_count[d] = Cardinality(ChunksOf(d))

\* --------------------------------------------------------------------- C27
C27_Range ==
    \A j \in IngestJobs :
        /\ 0 <= get_job_status(j).num
        /\ get_job_status(j).num <= get_job_status(j).den
        /\ task_state[j] = "SUCCESS" => get_job_status(j).stage # "pending"

C27_Monotone ==
    \A j \in IngestJobs :
        get_job_status(j).num * get_job_status(j)'.den
            <= get_job_status(j)'.num * get_job_status(j).den

\* C27: the progress fraction get_job_status returns for an ingestion job is
\* in [0,1] and never decreases from one read to a later one, the read after
\* the job has completed included, and that read does not report the stage
\* 'pending'.
CE_C27 == [](C27_Range) /\ [][C27_Monotone]_vars

\* --------------------------------------------------------------------- C28
\* the version numbers of the snapshots of answer j, in commit order
SnapshotsOf(j) == SelectSeq(answer_versions, LAMBDA v : v.answer_id = j)

\* C28: with no edit in flight, after n edit reviews of an answer that all
\* succeeded, however they interleaved, its version is 1+n and it has n
\* snapshots whose version numbers are 1..n, each once, the one numbered 1
\* holding the generated text.
CE_C28 ==
    (\A r \in Reviewers : requests[r].pc = "idle") =>
        \A j \in Jobs :
            (answers[j].present /\ responses.submitted = responses.edited[j]) =>
                LET n == responses.edited[j]
                    snaps == SnapshotsOf(j)
                IN /\ answers[j].version = 1 + n
                   /\ Len(snaps) = n
                   /\ \A v \in 1..n :
                         Cardinality({k \in 1..Len(snaps) : snaps[k].version_number = v}) = 1
                   /\ \A k \in 1..Len(snaps) :
                         snaps[k].version_number = 1 =>
                             snaps[k].content_snapshot = answer_text[j]

\* --------------------------------------------------------------------- C29
\* C29: after an answer is generated and after any sequence of approve, reject
\* and edit reviews, each citation stored for the answer has its label
\* "[citation_order]" in the answer's current text.
CE_C29 ==
    \A j \in Jobs :
        answers[j].present =>
            \A i \in 1..Len(answer_citations[j]) :
                In(Label(answer_citations[j][i].citation_order), answers[j].answer_text, 1)

\* --------------------------------------------------------------------- C30
\* C30: when an ingestion job is terminal (completed or failed), no document
\* of its batch is left in state processing, also when a persistence call
\* failed partway through the batch.
CE_C30 ==
    \A j \in IngestJobs :
        task_state[j] \in {"SUCCESS", "FAILURE"} =>
            \A i \in 1..Total(j) :
                OnlyJob(j, file_paths[j][i]) =>
                    processing_status[file_paths[j][i]] # "processing"
====
